---- MODULE Spec2Model ----
(***************************************************************************)
(* Model of homework.py: the fitness-tracker calculator.                   *)
(*                                                                         *)
(* Numbers.  Python computes with float64; this model computes with exact  *)
(* rationals <<n, d>> (d > 0, lowest terms).  Rounding error of binary     *)
(* floating point is therefore not part of the model: 0.035 * 75 is 21/8   *)
(* here and 2.6250000000000004 in CPython.  Division by zero, the floor of *)
(* `//` and the order of evaluation are modelled as the code has them.     *)
(*                                                                         *)
(* Objects are records with a cls field; None is the record NoneObj.  A    *)
(* call that may raise returns [exc |-> name-or-"", val |-> value].        *)
(***************************************************************************)
EXTENDS Integers, Sequences, FiniteSets, TLC

VARIABLES
    name,           \* __name__: "__main__" (run as a script) or "homework" (imported)
    packages,       \* the batch the driver loop iterates over
    idx,            \* 1-based position of the driver loop in packages
    stdout,         \* the lines printed so far
    raised,         \* the exception that propagated to the top level, "" if none
    workout_type,   \* imported use: first argument given to read_package
    data,           \* imported use: second argument given to read_package
    training,       \* the object read_package returned (Unbound before the call)
    call,           \* imported use: the last function or method called
    ret,            \* imported use: the number the last method returned
    prev_call,      \* imported use: the call made before the last one
    info,           \* imported use: the InfoMessage show_training_info returned last
    message         \* imported use: the text get_message returned last

vars == <<name, packages, idx, stdout, raised, workout_type, data, training,
          call, prev_call, ret, info, message>>

-----------------------------------------------------------------------------
(* Exact rational arithmetic standing for Python's float operators.        *)

Abs(n) == IF n < 0 THEN -n ELSE n

RECURSIVE GCD(_, _)
GCD(a, b) == IF b = 0 THEN a ELSE GCD(b, a % b)

NormBy(n, d, g) ==
    IF d < 0 THEN <<(-n) \div g, (-d) \div g>> ELSE <<n \div g, d \div g>>

\* n/d in lowest terms with a positive denominator (d # 0).
Norm(n, d) == NormBy(n, d, GCD(Abs(n), Abs(d)))

R(i) == <<i, 1>>
Zero == R(0)

RAdd(x, y) == Norm(x[1] * y[2] + y[1] * x[2], x[2] * y[2])
RSub(x, y) == Norm(x[1] * y[2] - y[1] * x[2], x[2] * y[2])
RMul(x, y) == Norm(x[1] * y[1], x[2] * y[2])

\* x / y for y # 0.
RDiv(x, y) == Norm(x[1] * y[2], x[2] * y[1])

\* The floor of x / y for y # 0 (\div rounds towards minus infinity).
RFloorDiv(x, y) == R(RDiv(x, y)[1] \div RDiv(x, y)[2])

-----------------------------------------------------------------------------
(* Results of calls.                                                       *)

Ok(v) == [exc |-> "", val |-> v]
Raise(e) == [exc |-> e, val |-> Zero]

\* Python's true division: ZeroDivisionError on a zero divisor.
TrueDiv(x, y) == IF y[1] = 0 THEN Raise("ZeroDivisionError") ELSE Ok(RDiv(x, y))

\* Python's floor division on floats: ZeroDivisionError on a zero divisor.
FloorDiv(x, y) == IF y[1] = 0 THEN Raise("ZeroDivisionError") ELSE Ok(RFloorDiv(x, y))

NoneObj == [cls |-> "NoneType"]
Unbound == [cls |-> "unbound"]

-----------------------------------------------------------------------------
(* class Training                                                          *)

\* LEN_STEP, looked up through the instance: Swimming overrides the base value.
Training_LEN_STEP == <<13, 20>>
Swimming_LEN_STEP == <<69, 50>>
LEN_STEP(self) == IF self.cls = "Swimming" THEN Swimming_LEN_STEP ELSE Training_LEN_STEP

M_IN_KM == 1000
MIN_IN_HOUR == 60

Training_get_distance(self) ==
    Ok(RDiv(RMul(self.action, LEN_STEP(self)), R(M_IN_KM)))

\* No class overrides get_distance.
get_distance(self) == Training_get_distance(self)

\* Seeded fault: a zero duration is answered with speed 0 instead of raising.
Training_get_mean_speed_guarded(self) ==
    IF self.duration[1] = 0 THEN Ok(Zero)
    ELSE TrueDiv(get_distance(self).val, self.duration)

Training_get_mean_speed(self) ==
    TrueDiv(get_distance(self).val, self.duration)

(* class Running                                                           *)

coeff_calorie_run_1 == 18
coeff_calorie_run_2 == 20

\* Seeded fault: a constructor taking *args, which drops surplus values.
Running_lenient(args) ==
    IF Len(args) < 3 THEN Raise("TypeError")
    ELSE Ok([cls |-> "Running", action |-> args[1], duration |-> args[2],
             weight |-> args[3]])

\* __init__ is inherited from Training: exactly three positional arguments.
Running(args) ==
    IF Len(args) # 3 THEN Raise("TypeError")
    ELSE Ok([cls |-> "Running", action |-> args[1], duration |-> args[2],
             weight |-> args[3]])

(* class SportsWalking                                                     *)

coeff_calorie_spwlk_1 == <<7, 200>>
coeff_calorie_spwlk_2 == <<29, 1000>>

SportsWalking(args) ==
    IF Len(args) # 4 THEN Raise("TypeError")
    ELSE Ok([cls |-> "SportsWalking", action |-> args[1], duration |-> args[2],
             weight |-> args[3], height |-> args[4]])

(* class Swimming                                                          *)

coeff_calorie_swim_1 == <<11, 10>>
coeff_calorie_swim_2 == 2

Swimming(args) ==
    IF Len(args) # 5 THEN Raise("TypeError")
    ELSE Ok([cls |-> "Swimming", action |-> args[1], duration |-> args[2],
             weight |-> args[3], length_pool |-> args[4], count_pool |-> args[5]])

\* Seeded fault: the override is missing and the inherited formula is used.
Swimming_get_mean_speed_inherited(self) ==
    TrueDiv(get_distance(self).val, self.duration)

Swimming_get_mean_speed(self) ==
    TrueDiv(RDiv(RMul(self.length_pool, self.count_pool), R(M_IN_KM)),
            self.duration)

\* Method resolution: only Swimming overrides get_mean_speed.
get_mean_speed(self) ==
    IF self.cls = "Swimming" THEN Swimming_get_mean_speed(self)
    ELSE Training_get_mean_speed(self)

Training_get_spent_calories(self) == Raise("NotImplementedError")

(* get_spent_calories.  Each X_calories(self, speed) is the method's       *)
(* expression once self.get_mean_speed() has been evaluated to `speed`; an *)
(* exception of that call propagates before anything else is computed.     *)

\* Seeded fault: the two coefficients exchanged.
Running_calories_swapped(self, speed) ==
    IF speed.exc # "" THEN speed
    ELSE Ok(RMul(RDiv(RMul(RSub(RMul(R(coeff_calorie_run_2), speed.val),
                                R(coeff_calorie_run_1)),
                           self.weight),
                      R(M_IN_KM)),
                 RMul(self.duration, R(MIN_IN_HOUR))))

Running_calories(self, speed) ==
    IF speed.exc # "" THEN speed
    ELSE Ok(RMul(RDiv(RMul(RSub(RMul(R(coeff_calorie_run_1), speed.val),
                                R(coeff_calorie_run_2)),
                           self.weight),
                      R(M_IN_KM)),
                 RMul(self.duration, R(MIN_IN_HOUR))))

Running_get_spent_calories(self) == Running_calories(self, get_mean_speed(self))

\* The rest of the expression once (speed ** 2) // self.height is `q`.
SportsWalking_sum(self, q) ==
    IF q.exc # "" THEN q
    ELSE Ok(RMul(RAdd(RMul(coeff_calorie_spwlk_1, self.weight),
                      RMul(RMul(q.val, coeff_calorie_spwlk_2), self.height)),
                 RMul(self.duration, R(MIN_IN_HOUR))))

\* int(x / y): the quotient truncated towards zero.
TruncDiv(x, y) ==
    IF y[1] = 0 THEN Raise("ZeroDivisionError")
    ELSE IF RDiv(x, y)[1] < 0
         THEN Ok(R(-((-RDiv(x, y)[1]) \div RDiv(x, y)[2])))
         ELSE Ok(R(RDiv(x, y)[1] \div RDiv(x, y)[2]))

\* Seeded fault: int(speed ** 2 / height) written for speed ** 2 // height.
SportsWalking_calories_trunc(self, speed) ==
    IF speed.exc # "" THEN speed
    ELSE SportsWalking_sum(self, TruncDiv(RMul(speed.val, speed.val), self.height))

SportsWalking_calories(self, speed) ==
    IF speed.exc # "" THEN speed
    ELSE SportsWalking_sum(self, FloorDiv(RMul(speed.val, speed.val), self.height))

SportsWalking_get_spent_calories(self) ==
    SportsWalking_calories(self, get_mean_speed(self))

Swimming_calories(self, speed) ==
    IF speed.exc # "" THEN speed
    ELSE Ok(RMul(RMul(RAdd(speed.val, coeff_calorie_swim_1),
                      R(coeff_calorie_swim_2)),
                 self.weight))

Swimming_get_spent_calories(self) == Swimming_calories(self, get_mean_speed(self))

\* Method resolution by the class of the instance.
get_spent_calories(self) ==
    CASE self.cls = "Running" -> Running_get_spent_calories(self)
      [] self.cls = "SportsWalking" -> SportsWalking_get_spent_calories(self)
      [] self.cls = "Swimming" -> Swimming_get_spent_calories(self)
      [] OTHER -> Training_get_spent_calories(self)

\* InfoMessage(type(self).__name__, self.duration, distance, speed, calories):
\* the arguments are evaluated left to right, the first exception
\* propagates and no InfoMessage is built.
InfoMessage(self, distance, speed, calories) ==
    IF distance.exc # "" THEN distance
    ELSE IF speed.exc # "" THEN speed
    ELSE IF calories.exc # "" THEN calories
    ELSE Ok([training_type |-> self.cls, duration |-> self.duration,
             distance |-> distance.val, speed |-> speed.val,
             calories |-> calories.val])

show_training_info(self) ==
    InfoMessage(self, get_distance(self), get_mean_speed(self),
                get_spent_calories(self))

-----------------------------------------------------------------------------
(* class InfoMessage                                                       *)

NoInfo == [training_type |-> ""]
NoMessage == [training_type |-> ""]

\* format(x, '.3f'): the sign, the integer part and exactly three fractional
\* digits (frac in 0..999, printed zero-padded) of x rounded to the nearest
\* thousandth.  CPython rounds the float's binary value, so an exact tie only
\* occurs for a dyadic x and goes to even; a decimal tie such as 0.0005 goes
\* where its binary error points, and a float may be -0.0.  The inputs tried
\* below produce neither.
Round3(q, r, d) == IF 2 * r > d \/ (2 * r = d /\ q % 2 = 1) THEN q + 1 ELSE q

Digits3(neg, m) == [neg |-> neg, int |-> m \div 1000, frac |-> m % 1000]

Format3f(x) ==
    Digits3(x[1] < 0,
            Round3((Abs(x[1]) * 1000) \div x[2], (Abs(x[1]) * 1000) % x[2], x[2]))

\* The five fields of the message template, in its order.
get_message(self) ==
    [training_type |-> self.training_type,
     duration |-> Format3f(self.duration),
     distance |-> Format3f(self.distance),
     speed |-> Format3f(self.speed),
     calories |-> Format3f(self.calories)]

-----------------------------------------------------------------------------
(* read_package and main                                                   *)

\* Seeded fault: two values of the dictionary exchanged.
training_dict_swapped ==
    [c \in {"SWM", "RUN", "WLK"} |->
        CASE c = "SWM" -> "Swimming"
          [] c = "RUN" -> "SportsWalking"
          [] c = "WLK" -> "Running"]

\* The dictionary `training` local to read_package.
training_dict ==
    [c \in {"SWM", "RUN", "WLK"} |->
        CASE c = "SWM" -> "Swimming"
          [] c = "RUN" -> "Running"
          [] c = "WLK" -> "SportsWalking"]

\* cls(*args)
Construct(cls, args) ==
    CASE cls = "Swimming" -> Swimming(args)
      [] cls = "Running" -> Running(args)
      [] cls = "SportsWalking" -> SportsWalking(args)

\* Seeded fault: no except clause, the KeyError propagates.
read_package_no_catch(wt, d) ==
    IF wt \notin DOMAIN training_dict THEN Raise("KeyError")
    ELSE Construct(training_dict[wt], d)

\* What a bare `except:` makes of the result of the try block.
CaughtAll(r) == IF r.exc # "" THEN Ok(NoneObj) ELSE r

\* Seeded fault: a bare `except:` in place of `except KeyError:`.
read_package_catch_all(wt, d) ==
    IF wt \notin DOMAIN training_dict THEN Ok(NoneObj)
    ELSE CaughtAll(Construct(training_dict[wt], d))

\* KeyError (the code is no key of the dictionary) is caught and None is
\* returned; any other exception of the constructor call propagates.
read_package(wt, d) ==
    IF wt \notin DOMAIN training_dict THEN Ok(NoneObj)
    ELSE Construct(training_dict[wt], d)

\* main(training): the line printed, or the exception that propagates.
main_print(i) == IF i.exc # "" THEN i ELSE Ok(get_message(i.val))

main(t) == main_print(show_training_info(t))

\* 'Сбой в работе датчика - тип тренировки не определен.'
Diagnostic == [training_type |-> "?"]

-----------------------------------------------------------------------------
(* Inputs                                                                  *)

MaxLen == 6      \* longest data list given to read_package
MaxBatch == 3    \* longest batch given to the driver loop
MaxPrints == 1   \* most calls of main() by an importing caller

\* The list literal of the __main__ block.
MainPackages ==
    << <<"SM", <<R(720), R(1), R(80), R(25), R(40)>> >>,
       <<"RUN", <<R(15000), R(1), R(75)>> >>,
       <<"WLK", <<R(9000), R(1), R(75), R(180)>> >> >>

Codes == {"SWM", "RUN", "WLK", "SM", "run"}

\* The values tried at position k of a data list.
ValuesAt(k) ==
    CASE k = 1 -> {R(0), R(2000), R(4000)}
      [] k = 2 -> {R(0), <<1, 2>>, R(1), R(2)}
      [] k = 3 -> {R(2), R(75)}
      [] k = 4 -> {R(-1), R(0), <<1, 2>>, R(2)}
      [] k = 5 -> {R(4), R(40)}
      [] OTHER -> {R(0)}

RECURSIVE DataLists(_)
DataLists(n) ==
    IF n = 0 THEN {<<>>}
    ELSE {Append(s, v) : s \in DataLists(n - 1), v \in ValuesAt(n)}

\* What an importing caller passes to read_package.
Inputs ==
    {<<"SWM", MainPackages[1][2]>>, MainPackages[2], MainPackages[3]}
    \cup (Codes \X UNION {DataLists(n) : n \in 0..MaxLen})

\* The entries batches are built from: the literal's, the same with the
\* code "SWM", and entries with a wrong argument count or a zero divisor.
BatchEntries ==
    {MainPackages[1], MainPackages[2], MainPackages[3],
     <<"SWM", MainPackages[1][2]>>,
     <<"RUN", <<R(1), R(2)>> >>,
     <<"WLK", <<R(9000), R(1), R(75), R(180), R(0)>> >>,
     <<"RUN", <<R(15000), R(0), R(75)>> >>,
     <<"WLK", <<R(9000), R(1), R(75), R(0)>> >>}

RECURSIVE BatchesOfLen(_)
BatchesOfLen(n) ==
    IF n = 0 THEN {<<>>}
    ELSE {Append(b, e) : b \in BatchesOfLen(n - 1), e \in BatchEntries}

Batches == UNION {BatchesOfLen(n) : n \in 0..MaxBatch}

-----------------------------------------------------------------------------
(* The state machine                                                       *)

Init ==
    /\ stdout = <<>>
    /\ raised = ""
    /\ training = Unbound
    /\ call = ""
    /\ prev_call = ""
    /\ ret = Zero
    /\ info = NoInfo
    /\ message = NoMessage
    /\ idx = 1
    /\ \/ /\ name = "__main__"
          /\ packages \in Batches
          /\ workout_type = ""
          /\ data = <<>>
       \/ /\ name = "homework"
          /\ packages = <<>>
          /\ \E p \in Inputs : workout_type = p[1] /\ data = p[2]

\* print(info.get_message()) in main, or the exception main lets through.
Printed(r) ==
    IF r.exc # ""
    THEN raised' = r.exc /\ UNCHANGED <<idx, stdout>>
    ELSE stdout' = Append(stdout, r.val) /\ idx' = idx + 1 /\ UNCHANGED raised

\* The else branch, once the second read_package call has returned `second`.
ElseBranch(second) ==
    IF second.exc # ""
    THEN raised' = second.exc /\ UNCHANGED <<idx, stdout, training>>
    ELSE training' = second.val /\ Printed(main(second.val))

\* The loop body, once the read_package call of the if test has returned `first`.
LoopBody(wt, d, first) ==
    \/ /\ first.exc # ""
       /\ raised' = first.exc
       /\ UNCHANGED <<idx, stdout, training>>
    \/ /\ first.exc = ""
       /\ first.val = NoneObj
       /\ stdout' = Append(stdout, Diagnostic)
       /\ idx' = idx + 1
       /\ UNCHANGED <<raised, training>>
    \/ /\ first.exc = ""
       /\ first.val # NoneObj
       /\ ElseBranch(read_package(wt, d))

\* One iteration of the for loop of the __main__ block.  An exception ends
\* the program: the loop has no handler.
MainLoop ==
    /\ name = "__main__"
    /\ raised = ""
    /\ idx <= Len(packages)
    /\ LoopBody(packages[idx][1], packages[idx][2],
                read_package(packages[idx][1], packages[idx][2]))
    /\ UNCHANGED <<name, packages, workout_type, data, call, prev_call, ret,
                   info, message>>

\* The assignment training = <call> binds the name only if the call returns.
Returned(r) ==
    /\ raised' = r.exc
    /\ training' = IF r.exc = "" THEN r.val ELSE training

\* An importing caller: training = read_package(workout_type, data).
ReadPackage ==
    /\ name = "homework"
    /\ call = ""
    /\ Returned(read_package(workout_type, data))
    /\ call' = "read_package"
    /\ prev_call' = call
    /\ UNCHANGED <<name, packages, idx, stdout, workout_type, data, ret, info,
                   message>>

IsTraining(t) == t.cls \in {"Running", "SportsWalking", "Swimming"}

\* An importing caller calls a method that returns a float on the object.
FloatCall(method, r) ==
    /\ name = "homework"
    /\ IsTraining(training)
    /\ call' = method
    /\ prev_call' = call
    /\ raised' = r.exc
    /\ ret' = r.val
    /\ UNCHANGED <<name, packages, idx, stdout, workout_type, data, training,
                   info, message>>

GetDistance == FloatCall("get_distance", get_distance(training))

GetMeanSpeed == FloatCall("get_mean_speed", get_mean_speed(training))

GetSpentCalories == FloatCall("get_spent_calories", get_spent_calories(training))

\* info = <call>: here info is reset to NoInfo when the call raises.
ReturnedInfo(r) ==
    /\ raised' = r.exc
    /\ info' = IF r.exc = "" THEN r.val ELSE NoInfo

\* Seeded fault: show_training_info resets self.action once it has been read.
ShowTrainingInfo_consuming ==
    /\ name = "homework"
    /\ IsTraining(training)
    /\ ReturnedInfo(show_training_info(training))
    /\ training' = [training EXCEPT !.action = Zero]
    /\ call' = "show_training_info"
    /\ prev_call' = call
    /\ UNCHANGED <<name, packages, idx, stdout, workout_type, data, ret,
                   message>>

ShowTrainingInfo ==
    /\ name = "homework"
    /\ IsTraining(training)
    /\ ReturnedInfo(show_training_info(training))
    /\ call' = "show_training_info"
    /\ prev_call' = call
    /\ UNCHANGED <<name, packages, idx, stdout, workout_type, data, training,
                   ret, message>>

GetMessage ==
    /\ name = "homework"
    /\ info # NoInfo
    /\ message' = get_message(info)
    /\ call' = "get_message"
    /\ prev_call' = call
    /\ raised' = ""
    /\ UNCHANGED <<name, packages, idx, stdout, workout_type, data, training,
                   ret, info>>

PrintedBy(r) ==
    /\ raised' = r.exc
    /\ stdout' = IF r.exc = "" THEN Append(stdout, r.val) ELSE stdout

\* An importing caller calls main(training).
Main ==
    /\ name = "homework"
    /\ IsTraining(training)
    /\ Len(stdout) < MaxPrints
    /\ PrintedBy(main(training))
    /\ call' = "main"
    /\ prev_call' = call
    /\ UNCHANGED <<name, packages, idx, workout_type, data, training, ret,
                   info, message>>

Next ==
    \/ MainLoop
    \/ ReadPackage
    \/ GetDistance
    \/ GetMeanSpeed
    \/ GetSpentCalories
    \/ ShowTrainingInfo
    \/ GetMessage
    \/ Main

Spec == Init /\ [][Next]_vars

-----------------------------------------------------------------------------
(* The claims.  The formulas below restate the specification's sentences   *)
(* with the arithmetic written out from the sentence, not from the model's *)
(* method operators.                                                       *)

Imported == name = "homework"
Script == name = "__main__"

ValidCodes == {"SWM", "RUN", "WLK"}

SpecArity(code) ==
    CASE code = "RUN" -> 3
      [] code = "WLK" -> 4
      [] code = "SWM" -> 5

SpecVariant(code) ==
    CASE code = "RUN" -> "Running"
      [] code = "WLK" -> "SportsWalking"
      [] code = "SWM" -> "Swimming"

\* The record the specification expects for a recognized code and values
\* of the right length: the positional values assigned in order.
SpecRecord(code, values) ==
    CASE code = "RUN" ->
            [cls |-> "Running", action |-> values[1], duration |-> values[2],
             weight |-> values[3]]
      [] code = "WLK" ->
            [cls |-> "SportsWalking", action |-> values[1],
             duration |-> values[2], weight |-> values[3], height |-> values[4]]
      [] code = "SWM" ->
            [cls |-> "Swimming", action |-> values[1], duration |-> values[2],
             weight |-> values[3], length_pool |-> values[4],
             count_pool |-> values[5]]

WellFormed(entry) ==
    entry[1] \in ValidCodes /\ Len(entry[2]) = SpecArity(entry[1])

ArityMismatch(entry) ==
    entry[1] \in ValidCodes /\ Len(entry[2]) # SpecArity(entry[1])

\* A well-formed entry whose record divides by zero: a zero duration, or a
\* zero height for Walking.
ArithmeticFault(entry) ==
    /\ WellFormed(entry)
    /\ \/ entry[2][2][1] = 0
       \/ entry[1] = "WLK" /\ entry[2][4][1] = 0

Called == Imported /\ call # ""

\* C1: for every recognized code and every value sequence of the right
\* length, read_package returns a record of the variant mapped to the code,
\* with the positional values assigned in order; no code ever yields a
\* record of another variant.
C1_Dispatch ==
    /\ (Called /\ WellFormed(<<workout_type, data>>)) =>
            (call = "read_package" => raised = "")
            /\ training = SpecRecord(workout_type, data)
    /\ (Imported /\ IsTraining(training)) =>
            workout_type \in ValidCodes
            /\ training.cls = SpecVariant(workout_type)
    /\ (Script /\ training # Unbound) =>
            \E k \in 1..Len(packages) :
                /\ k <= idx
                /\ WellFormed(packages[k])
                /\ training = SpecRecord(packages[k][1], packages[k][2])

C1_Witness ==
    /\ Imported
    /\ call = "read_package"
    /\ workout_type = "WLK"
    /\ training.cls = "SportsWalking"
    /\ training.action = R(4000)
    /\ training.height = R(2)

\* C2 as stated: for every code outside {"SWM", "RUN", "WLK"} and every value
\* sequence, read_package yields the tagged failure InvalidCode, never a
\* silent null, and constructs no record.
C2_Original ==
    (Called /\ workout_type \notin ValidCodes) =>
        raised = "InvalidCode" /\ training # NoneObj /\ ~IsTraining(training)

\* C2 as amended: for every code outside {"SWM", "RUN", "WLK"} and every value
\* sequence, read_package raises nothing and returns None; no record is
\* constructed.
C2_ReturnsNone ==
    (Called /\ workout_type \notin ValidCodes) =>
        raised = "" /\ training = NoneObj

C2_Witness ==
    /\ Imported
    /\ call = "read_package"
    /\ workout_type = "SM"
    /\ Len(data) = 5
    /\ training = NoneObj

\* C3 as stated: for every recognized code and a value sequence whose length
\* differs from the variant's arity, read_package yields the distinct named
\* failure ArityMismatch and returns no record.
C3_Original ==
    (Called /\ ArityMismatch(<<workout_type, data>>)) =>
        raised = "ArityMismatch" /\ training = Unbound

\* C3 as amended: for every recognized code and a value sequence whose length
\* differs from the variant's arity, the constructor's generic TypeError
\* propagates out of read_package; nothing is returned (neither a record nor
\* None), which tells it from an unrecognized code, where nothing is raised.
C3_TypeError ==
    /\ (Called /\ ArityMismatch(<<workout_type, data>>)) =>
            raised = "TypeError" /\ training = Unbound
    /\ (Called /\ workout_type \notin ValidCodes) => raised # "TypeError"

C3_Witness ==
    /\ Imported
    /\ call = "read_package"
    /\ workout_type = "RUN"
    /\ Len(data) = 2
    /\ raised = "TypeError"

\* C4 as stated: the driver loop processes every entry in batch order and
\* never aborts the batch; an entry that fails with InvalidCode or
\* ArityMismatch produces the fixed diagnostic and is skipped, and every later
\* entry is still processed.  (Stated for batches free of arithmetic faults,
\* which the claim does not cover.)
C4_Original ==
    (Script /\ \A k \in 1..Len(packages) : ~ArithmeticFault(packages[k])) =>
        /\ raised = ""
        /\ Len(stdout) = idx - 1
        /\ \A k \in 1..Len(stdout) :
              (stdout[k] = Diagnostic) <=> ~WellFormed(packages[k])

\* What one iteration does with the entry at idx, by the kind of the entry.
C4_Iteration(entry) ==
    CASE entry[1] \notin ValidCodes ->
            /\ stdout' = Append(stdout, Diagnostic)
            /\ idx' = idx + 1
            /\ raised' = ""
      [] ArityMismatch(entry) ->
            /\ raised' = "TypeError"
            /\ stdout' = stdout
            /\ idx' = idx
      [] ArithmeticFault(entry) ->
            /\ raised' = "ZeroDivisionError"
            /\ stdout' = stdout
            /\ idx' = idx
      [] OTHER ->
            /\ Len(stdout') = Len(stdout) + 1
            /\ SubSeq(stdout', 1, Len(stdout)) = stdout
            /\ stdout'[idx] # Diagnostic
            /\ stdout'[idx].training_type = SpecVariant(entry[1])
            /\ idx' = idx + 1
            /\ raised' = ""

C4_Step ==
    Script =>
        /\ raised = ""
        /\ idx <= Len(packages)
        /\ Len(stdout) = idx - 1
        /\ packages' = packages
        /\ C4_Iteration(packages[idx])

\* C4 as amended: the driver loop processes the entries in batch order; an
\* entry with an unrecognized code produces the fixed diagnostic, is skipped,
\* and the loop goes on to the next entry; an entry with a recognized code
\* and a wrong number of values raises an uncaught TypeError (and a division
\* by zero an uncaught ZeroDivisionError) that aborts the batch at that entry:
\* it produces no output and no later entry is processed.
C4_Driver == [][C4_Step]_vars

C4_Witness ==
    /\ Script
    /\ raised = ""
    /\ Len(packages) = 3
    /\ idx = 4
    /\ stdout[1] = Diagnostic
    /\ stdout[2] # Diagnostic
    /\ stdout[3] # Diagnostic

\* C5: running the driver on its hard-coded batch emits exactly three
\* formatted summary lines, one per entry, in the order Swimming, Running,
\* Walking, and emits no diagnostic message.
C5_Original ==
    (Script /\ packages = MainPackages /\ idx > Len(packages)) =>
        /\ Len(stdout) = 3
        /\ \A k \in 1..3 : stdout[k] # Diagnostic
        /\ stdout[1].training_type = "Swimming"
        /\ stdout[2].training_type = "Running"
        /\ stdout[3].training_type = "SportsWalking"

NonZero(t) ==
    t.duration[1] # 0 /\ (t.cls = "SportsWalking" => t.height[1] # 0)

Getters == {"show_training_info", "get_distance", "get_mean_speed",
            "get_spent_calories"}

C6_Step ==
    (Imported /\ IsTraining(training)) =>
        /\ call' \in Getters => training' = training
        /\ (call = "show_training_info" /\ call' = "show_training_info"
            /\ NonZero(training)) =>
                /\ info' = info
                /\ DOMAIN info' = {"training_type", "duration", "distance",
                                   "speed", "calories"}

\* C6: for every record with non-zero duration (and height for Walking),
\* calling show_training_info twice in a row yields two InfoMessage values
\* equal in all five fields, and no field of the record is changed by
\* show_training_info, get_distance, get_mean_speed or get_spent_calories.
C6_Idempotent == [][C6_Step]_vars

C6_Witness ==
    /\ Imported
    /\ prev_call = "show_training_info"
    /\ call = "show_training_info"
    /\ training.cls = "SportsWalking"
    /\ NonZero(training)
    /\ info # NoInfo

RLess(x, y) == x[1] * y[2] < y[1] * x[2]

Dec(n, d) == Norm(n, d)

\* actionCount * 0.65 / 1000 / durationHours
SpecStepSpeed(t) == RDiv(RDiv(RMul(t.action, Dec(65, 100)), R(1000)), t.duration)

SpecFloor(x) == R(x[1] \div x[2])

SpecWalkingCalories(t) ==
    RMul(RAdd(RMul(Dec(35, 1000), t.weight),
              RMul(RMul(SpecFloor(RDiv(RMul(SpecStepSpeed(t), SpecStepSpeed(t)),
                                       t.height)),
                        Dec(29, 1000)),
                   t.height)),
         RMul(t.duration, R(60)))

WalkingReference ==
    [cls |-> "SportsWalking", action |-> R(9000), duration |-> R(1),
     weight |-> R(75), height |-> R(180)]

\* C7: for every Walking record with non-zero duration and height,
\* get_spent_calories equals (0.035 * weight + floor(speed^2 / height) * 0.029
\* * height) * (duration * 60) with speed = action * 0.65 / 1000 / duration;
\* whenever speed^2 < height it is 0.035 * weight * duration * 60, and for
\* action=9000, duration=1, weight=75, height=180 it is 157.5.
C7_WalkingCalories ==
    (Imported /\ call = "get_spent_calories" /\ training.cls = "SportsWalking"
     /\ NonZero(training)) =>
        /\ raised = ""
        /\ ret = SpecWalkingCalories(training)
        /\ RLess(RMul(SpecStepSpeed(training), SpecStepSpeed(training)),
                 training.height) =>
              ret = RMul(RMul(RMul(Dec(35, 1000), training.weight),
                              training.duration), R(60))
        /\ training = WalkingReference => ret = Dec(1575, 10)

C7_Witness ==
    /\ Imported
    /\ call = "get_spent_calories"
    /\ training.cls = "SportsWalking"
    /\ NonZero(training)
    /\ training.height[1] > 0
    /\ ~RLess(RMul(SpecStepSpeed(training), SpecStepSpeed(training)),
              training.height)
    /\ raised = ""

SpecPoolSpeed(t) ==
    RDiv(RDiv(RMul(t.length_pool, t.count_pool), R(1000)), t.duration)

SwimmingReference ==
    [cls |-> "Swimming", action |-> R(720), duration |-> R(1),
     weight |-> R(80), length_pool |-> R(25), count_pool |-> R(40)]

\* C8: for every Swimming record with non-zero duration, get_mean_speed equals
\* (length_pool * count_pool / 1000) / duration and get_spent_calories equals
\* (speed + 1.1) * 2 * weight, both independent of action, while get_distance
\* equals action * 1.38 / 1000; for action=720, duration=1, weight=80,
\* length_pool=25, count_pool=40 the speed is 1.0 and the calories 336.0.
C8_Swimming ==
    (Imported /\ training.cls = "Swimming" /\ NonZero(training)) =>
        /\ call = "get_mean_speed" =>
              raised = "" /\ ret = SpecPoolSpeed(training)
              /\ (training = SwimmingReference => ret = R(1))
        /\ call = "get_spent_calories" =>
              raised = ""
              /\ ret = RMul(RMul(RAdd(SpecPoolSpeed(training), Dec(11, 10)), R(2)),
                            training.weight)
              /\ (training = SwimmingReference => ret = R(336))
        /\ call = "get_distance" =>
              raised = ""
              /\ ret = RDiv(RMul(training.action, Dec(138, 100)), R(1000))
        /\ \A a \in ValuesAt(1) :
              /\ get_mean_speed([training EXCEPT !.action = a])
                    = Ok(SpecPoolSpeed(training))
              /\ get_spent_calories([training EXCEPT !.action = a])
                    = get_spent_calories(training)

C8_Witness ==
    /\ Imported
    /\ training = SwimmingReference
    /\ prev_call = "get_mean_speed"
    /\ call = "get_spent_calories"
    /\ ret = R(336)

RunningReference ==
    [cls |-> "Running", action |-> R(15000), duration |-> R(1),
     weight |-> R(75)]

\* The three formulas of C9, with the calories of the reference record left
\* open.
C9_Formulas(reference_calories) ==
    (Imported /\ training.cls = "Running" /\ NonZero(training)) =>
        /\ call = "get_distance" =>
              raised = ""
              /\ ret = RDiv(RMul(training.action, Dec(65, 100)), R(1000))
              /\ (training = RunningReference => ret = Dec(975, 100))
        /\ call = "get_mean_speed" =>
              raised = "" /\ ret = SpecStepSpeed(training)
              /\ (training = RunningReference => ret = Dec(975, 100))
        /\ call = "get_spent_calories" =>
              raised = ""
              /\ ret = RMul(RDiv(RMul(RSub(RMul(R(18), SpecStepSpeed(training)),
                                           R(20)),
                                      training.weight),
                                 R(1000)),
                            RMul(training.duration, R(60)))
              /\ (training = RunningReference => ret = reference_calories)

\* C9 as stated: for every Running record with non-zero duration, distance is
\* action * 0.65 / 1000, speed is distance / duration and calories are
\* ((18 * speed - 20) * weight / 1000) * (duration * 60); for action=15000,
\* duration=1, weight=75 this gives 9.75, 9.75 and 728.775.
C9_Original == C9_Formulas(Dec(728775, 1000))

\* C9 as amended: the same three formulas; for action=15000, duration=1,
\* weight=75 they give distance 9.75, speed 9.75 and calories 699.75.
C9_Running == C9_Formulas(Dec(69975, 100))

C9_Witness ==
    /\ Imported
    /\ training = RunningReference
    /\ call = "get_spent_calories"
    /\ raised = ""

\* C10: for a record of any variant with duration = 0, get_mean_speed fails
\* with a division by zero, and for a Walking record with height = 0
\* get_spent_calories fails likewise; the fault is caught nowhere, so
\* show_training_info produces no InfoMessage and the fault propagates out of
\* the driver, while get_distance on the same record still returns
\* action * LEN_STEP / 1000.
C10_ZeroDivision ==
    /\ (Imported /\ IsTraining(training) /\ ~NonZero(training)) =>
          /\ (call = "get_mean_speed" /\ training.duration[1] = 0) =>
                raised = "ZeroDivisionError"
          /\ (call = "get_spent_calories" /\ training.cls = "SportsWalking") =>
                raised = "ZeroDivisionError"
          /\ call = "show_training_info" =>
                raised = "ZeroDivisionError" /\ info = NoInfo
          /\ call = "main" => raised = "ZeroDivisionError" /\ stdout = <<>>
          /\ call = "get_distance" =>
                /\ raised = ""
                /\ ret = RDiv(RMul(training.action,
                                   IF training.cls = "Swimming"
                                   THEN Dec(138, 100) ELSE Dec(65, 100)),
                              R(1000))
    /\ Script =>
          /\ \A k \in 1..Len(packages) :
                (k < idx \/ k <= Len(stdout)) => ~ArithmeticFault(packages[k])
          /\ raised = "ZeroDivisionError" =>
                /\ idx <= Len(packages)
                /\ ArithmeticFault(packages[idx])
                /\ Len(stdout) = idx - 1

C10_Witness ==
    /\ Imported
    /\ training.cls = "SportsWalking"
    /\ training.duration[1] # 0
    /\ training.height[1] = 0
    /\ prev_call = "get_distance"
    /\ call = "show_training_info"
    /\ raised = "ZeroDivisionError"

====
